---- MODULE Spec2Model ----
(***************************************************************************)
(* A model of balrogscript/script.py: the three submission flows           *)
(* (submit_locale, schedule, submit_toplevel), the request builders they   *)
(* use and the retry wrapper placed around every registry call.            *)
(*                                                                         *)
(* Python strings are sequences of one-character strings, so that strip,   *)
(* split, capitalize and concatenation are computed character by           *)
(* character.  A dict is a function whose DOMAIN is the set of keys that   *)
(* are present.                                                            *)
(***************************************************************************)
EXTENDS Integers, Sequences, FiniteSets, TLC

(***************************************************************************)
(* Bounds of the model.                                                    *)
(***************************************************************************)
\* attempts made by retry() before it gives up (redo's default is larger;
\* the flows never pass another value)
MaxAttempts == 3
\* longest manifest handed to submit_locale
MaxManifest == 2
\* most keys in the task's update_line mapping
MaxUpdateLines == 2
\* most pieces in a raw partial_versions string of the parser's specification
MaxPieces == 5

(***************************************************************************)
(* Strings.                                                                *)
(***************************************************************************)
EmptyStr == <<>>

\* the literal "build" of line 144
BuildLit == <<"b", "u", "i", "l", "d">>

CommaLit == <<",">>

\* Python's None
None == <<"None">>

IsSpace(c) == c = " "

RECURSIVE lstrip(_)
lstrip(s) ==
    IF s # <<>> /\ IsSpace(Head(s)) THEN lstrip(Tail(s)) ELSE s

RECURSIVE rstrip(_)
rstrip(s) ==
    IF s # <<>> /\ IsSpace(s[Len(s)]) THEN rstrip(SubSeq(s, 1, Len(s) - 1)) ELSE s

\* str.strip()
strip(s) == rstrip(lstrip(s))

\* s[p .. p + Len(sep) - 1] = sep
MatchAt(s, sep, p) ==
    /\ p + Len(sep) - 1 <= Len(s)
    /\ SubSeq(s, p, p + Len(sep) - 1) = sep

\* str.find(sep) + 1, or 0 when sep does not occur
Find(s, sep) ==
    LET hits == {p \in 1..Len(s) : MatchAt(s, sep, p)}
    IN  IF hits = {} THEN 0 ELSE CHOOSE p \in hits : \A q \in hits : p <= q

RECURSIVE split(_, _)
\* str.split(sep), sep non-empty
split(s, sep) ==
    LET p == Find(s, sep)
    IN  IF p = 0
        THEN <<s>>
        ELSE <<SubSeq(s, 1, p - 1)>> \o split(SubSeq(s, p + Len(sep), Len(s)), sep)

\* dict lookup with the key set, dict[k] = v
Put(d, k, v) == [x \in (DOMAIN d) \cup {k} |-> IF x = k THEN v ELSE d[x]]

\* the empty dict
EmptyDict == <<>>

Has(d, k) == k \in DOMAIN d

\* dict.get(k, default)
Get(d, k, default) == IF Has(d, k) THEN d[k] ELSE default

(***************************************************************************)
(* Errors.  An exception is a record of its type and its argument.         *)
(***************************************************************************)
NoError == [type |-> "none", arg |-> "none"]

KeyError(k) == [type |-> "KeyError", arg |-> k]

\* tuple unpacking of line 144 with other than two values
ValueError(n) ==
    [type |-> "ValueError",
     arg  |-> IF n < 2 THEN "need more than 1 value to unpack"
                       ELSE "too many values to unpack"]

\* line 80
UnknownStyleError ==
    [type |-> "RuntimeError",
     arg  |-> "Unknown Balrog submission style. Check manifest.json"]

\* what a registry call (submitter, creator, pusher or scheduler .run) can raise
RemoteErrors ==
    {[type |-> "HTTPError", arg |-> "registry"],
     [type |-> "ConnectionError", arg |-> "registry"]}

(***************************************************************************)
(* submit_toplevel, lines 140-145: the partial_versions parser.            *)
(***************************************************************************)
\* lines 143-144 without the strip() of line 143
ParseToken_NoStrip(v0) ==
    LET parts == split(v0, BuildLit)
    IN  IF Len(parts) = 2
        THEN [error |-> NoError, version |-> parts[1], build_number |-> parts[2]]
        ELSE [error |-> ValueError(Len(parts)), version |-> <<>>, build_number |-> <<>>]

\* lines 143-144 for one element of split(','): the stripped token split on
\* "build"; unpacking into (version, build_number) needs exactly two parts
ParseToken(v0) ==
    LET v     == strip(v0)
        parts == split(v, BuildLit)
    IN  IF Len(parts) = 2
        THEN [error |-> NoError, version |-> parts[1], build_number |-> parts[2]]
        ELSE [error |-> ValueError(Len(parts)), version |-> <<>>, build_number |-> <<>>]

RECURSIVE ParseTokens_SkipMalformed(_, _)
\* the loop of lines 142-145 with a token that does not unpack passed over
ParseTokens_SkipMalformed(tokens, partials) ==
    IF tokens = <<>>
    THEN [error |-> NoError, partials |-> partials]
    ELSE LET t == ParseToken(Head(tokens))
         IN  IF t.error # NoError
             THEN ParseTokens_SkipMalformed(Tail(tokens), partials)
             ELSE ParseTokens_SkipMalformed(Tail(tokens),
                      Put(partials, t.version, [buildNumber |-> t.build_number]))

RECURSIVE ParseTokens(_, _)
\* the loop of lines 142-145 over the remaining tokens
ParseTokens(tokens, partials) ==
    IF tokens = <<>>
    THEN [error |-> NoError, partials |-> partials]
    ELSE LET t == ParseToken(Head(tokens))
         IN  IF t.error # NoError
             THEN [error |-> t.error, partials |-> partials]
             ELSE ParseTokens(Tail(tokens),
                              Put(partials, t.version, [buildNumber |-> t.build_number]))

\* lines 140-145
ParsePartials(payload) ==
    IF Has(payload, "partial_versions") /\ payload["partial_versions"] # <<>>
    THEN ParseTokens(split(payload["partial_versions"], CommaLit), EmptyDict)
    ELSE [error |-> NoError, partials |-> EmptyDict]

(***************************************************************************)
(* str.capitalize(): first character upper-cased, the others lower-cased.  *)
(***************************************************************************)
Upper(c) == CASE c = "f" -> "F" [] c = "x" -> "X" [] OTHER -> c

Lower(c) == CASE c = "F" -> "f" [] c = "X" -> "x" [] OTHER -> c

capitalize(s) ==
    [n \in 1..Len(s) |-> IF n = 1 THEN Upper(s[n]) ELSE Lower(s[n])]

(***************************************************************************)
(* create_locale_submitter, lines 30-80.                                   *)
(***************************************************************************)
\* lines 42-53: data key -> manifest entry key
ReleaseFields ==
    [platform     |-> "platform",
     productName  |-> "appName",
     appVersion   |-> "appVersion",
     version      |-> "version",
     build_number |-> "build_number",
     locale       |-> "locale",
     hashFunction |-> "hashType",
     extVersion   |-> "extVersion",
     buildID      |-> "buildid",
     completeInfo |-> "completeInfo"]

\* lines 65-75: data key -> manifest entry key
NightlyFields ==
    [platform     |-> "platform",
     buildID      |-> "buildid",
     productName  |-> "appName",
     branch       |-> "branch",
     appVersion   |-> "appVersion",
     locale       |-> "locale",
     hashFunction |-> "hashType",
     extVersion   |-> "extVersion",
     completeInfo |-> "completeInfo"]

\* lines 42-53 and 65-75 without lines 54-55 and 76-77
LocaleData_NoPartialInfo(e, fields) ==
    [k \in DOMAIN fields |-> e[fields[k]]]

\* lines 42-55 and 65-77: the data dict, with partialInfo when the entry has it
LocaleData(e, fields) ==
    LET keys == (DOMAIN fields) \cup
                (IF Has(e, "partialInfo") THEN {"partialInfo"} ELSE {})
    IN  [k \in keys |-> IF k \in DOMAIN fields THEN e[fields[k]] ELSE e["partialInfo"]]

\* lines 30-80 with the nightly submitter built under the suffix as well
create_locale_submitter_NightlySuffixed(e, extra_suffix) ==
    IF Has(e, "tc_release")
    THEN [error     |-> NoError,
          submitter |-> [cls    |-> "ReleaseSubmitterV9",
                         suffix |-> Get(e, "blob_suffix", <<>>) \o extra_suffix],
          data      |-> LocaleData(e, ReleaseFields)]
    ELSE IF Has(e, "tc_nightly")
    THEN [error     |-> NoError,
          submitter |-> [cls    |-> "NightlySubmitterV4",
                         suffix |-> Get(e, "blob_suffix", <<>>) \o extra_suffix,
                         url_replacements |-> Get(e, "url_replacements", <<>>)],
          data      |-> LocaleData(e, NightlyFields)]
    ELSE [error     |-> UnknownStyleError,
          submitter |-> [cls |-> "none"],
          data      |-> EmptyDict]

\* lines 30-80; config['api_root'] and config['dummy'] are the same for every
\* submitter of an invocation and are left out of the submitter
create_locale_submitter(e, extra_suffix) ==
    IF Has(e, "tc_release")
    THEN [error     |-> NoError,
          submitter |-> [cls    |-> "ReleaseSubmitterV9",
                         suffix |-> Get(e, "blob_suffix", <<>>) \o extra_suffix],
          data      |-> LocaleData(e, ReleaseFields)]
    ELSE IF Has(e, "tc_nightly")
    THEN [error     |-> NoError,
          submitter |-> [cls    |-> "NightlySubmitterV4",
                         url_replacements |-> Get(e, "url_replacements", <<>>)],
          data      |-> LocaleData(e, NightlyFields)]
    ELSE [error     |-> UnknownStyleError,
          submitter |-> [cls |-> "none"],
          data      |-> EmptyDict]

(***************************************************************************)
(* The inputs of an invocation: the task and the manifest.                 *)
(***************************************************************************)
\* d without the keys in ks
Without(d, ks) == [k \in (DOMAIN d) \ ks |-> d[k]]

\* d with the entries of extra added
With(d, extra) ==
    [k \in (DOMAIN d) \cup (DOMAIN extra) |-> IF k \in DOMAIN extra THEN extra[k] ELSE d[k]]

\* the value of a field that the flows pass through unread
Val(k) == <<k>>

Products == {<<"f", "x">>, <<"f", "X">>, <<"F", "x">>}

\* the keys an update_line mapping may have
LinePool == {<<>>, <<"a">>, <<"b">>}

\* sequences over S of length n without repetition
DistinctSeqs(S, n) ==
    {q \in [1..n -> S] : \A a, b \in 1..n : a # b => q[a] # q[b]}

\* the key lists of update_line, in the order keys() gives them
LineKeyLists == UNION {DistinctSeqs(LinePool, n) : n \in 0..MaxUpdateLines}

\* the update_line mapping with these keys, as its items in keys() order
UpdateLine(keys) == [n \in 1..Len(keys) |-> [key |-> keys[n], value |-> <<"line">> \o keys[n]]]

\* update_line.keys()
Keys(items) == [n \in 1..Len(items) |-> items[n].key]

\* update_line.get(k)
LineGet(items, k) ==
    IF \E n \in 1..Len(items) : items[n].key = k
    THEN (CHOOSE it \in {items[n] : n \in 1..Len(items)} : it.key = k).value
    ELSE None

\* raw partial_versions strings of the flows
PartialSamples ==
    {<<>>,
     <<"1", "b", "u", "i", "l", "d", "2">>,
     <<"1", "b", "u", "i", "l", "d", "2", ",", " ", "3", "b", "u", "i", "l", "d", "4">>,
     <<"1">>,
     <<"1", "b", "u", "i", "l", "d", "2", "b", "u", "i", "l", "d", "3">>,
     <<"1", "b", "u", "i", "l", "d", "2", ",", "3">>}

\* the fields submit_toplevel reads with task['payload'][...]
ToplevelRequired ==
    {"product", "app_version", "version", "build_number", "channel_names",
     "archive_domain", "download_domain", "platforms", "require_mirrors",
     "rules_to_update"}

\* the fields schedule reads with task['payload'][...]
ScheduleRequired ==
    {"product", "version", "build_number", "publish_rules", "release_eta"}

ToplevelTask(product, optional, missing) ==
    [action  |-> "submit-toplevel",
     payload |-> Without(With([k \in ToplevelRequired |->
                                  IF k = "product" THEN product ELSE Val(k)],
                              optional),
                         missing)]

ScheduleTask(product, eta, optional, missing) ==
    [action  |-> "schedule",
     payload |-> Without(With([k \in ScheduleRequired |->
                                  IF k = "product" THEN product
                                  ELSE IF k = "release_eta" THEN eta ELSE Val(k)],
                              optional),
                         missing)]

LocaleTask(optional) ==
    [action  |-> "submit-locale",
     payload |-> optional]

\* the keys every manifest entry has
EntryRequired ==
    {"platform", "appName", "appVersion", "version", "build_number", "locale",
     "hashType", "extVersion", "buildid", "completeInfo", "branch"}

EntryMarkers == SUBSET {"tc_release", "tc_nightly"}

EntryOptions ==
    {{}, {"partialInfo"}, {"blob_suffix"},
     {"partialInfo", "blob_suffix", "url_replacements"}}

\* the n-th entry of a manifest
Entry(n, markers, options) ==
    [k \in EntryRequired \cup markers \cup options |->
        IF k = "blob_suffix" THEN <<"e">>
        ELSE IF k = "appName" THEN <<"f", "X">>
        ELSE <<k, ToString(n)>>]

EntryShapes == EntryMarkers \X EntryOptions

Manifests ==
    UNION {{[n \in 1..len |-> Entry(n, shapes[n][1], shapes[n][2])] :
              shapes \in [1..len -> EntryShapes]} : len \in 0..MaxManifest}

\* the suffixes lists of a locale task
SuffixLists ==
    {<<>>, <<<<>>>>, <<<<"s">>>>, <<<<>>, <<"s">>>>, <<<<"s">>, <<>>>>}

(***************************************************************************)
(* The state of an invocation.                                             *)
(***************************************************************************)
VARIABLES
    loaded,    \* main: the config setup_config returned, as update_config leaves it
    steps,     \* main: the calls of lines 243-248 that returned, in order
    action,    \* main: what get_task_action returned
    server,    \* main: what get_task_server returned
    config,    \* main: the config the flows are given
    balrog_auth, \* main: the credentials the flows are given
    task,      \* the task: its action and its payload
    manifest,  \* what get_manifest returns: the entries, in order
    pc,        \* the statement the invocation is at
    partials,  \* submit_toplevel's partials dict
    suffixes,  \* the suffixes the running flow iterates over
    i,         \* submit_locale: index of the manifest entry e
    j,         \* submit_locale, submit_toplevel: index of suffix
    attempt,   \* retry: invocations of the current (or last) thunk so far
    raised,    \* what the last invocation of a thunk raised, NoError if it returned
    error,     \* the exception that ended the invocation, NoError if none
    wrapped,   \* the calls handed to retry() so far, in order
    registry   \* the registry calls that completed, in order

vars == <<loaded, steps, action, server, config, balrog_auth, task, manifest, pc,
          partials, suffixes, i, j, attempt, raised, error, wrapped, registry>>

payload == task.payload

(***************************************************************************)
(* retry (redo.retry with its default arguments): the thunk is invoked;    *)
(* if it raises and attempts remain it is invoked again, if it raises on   *)
(* the last attempt the exception is re-raised as it is, and if it returns *)
(* retry returns.                                                          *)
(***************************************************************************)
retry(n, err) ==
    IF err = NoError THEN "return"
    ELSE IF n < MaxAttempts THEN "again"
    ELSE "raise"

\* the exception raised by evaluating task['payload'][k] for the keys in order
Lookup(keys) ==
    LET miss == {n \in 1..Len(keys) : ~Has(payload, keys[n])}
    IN  IF miss = {} THEN NoError
        ELSE KeyError(keys[CHOOSE n \in miss : \A m \in miss : n <= m])

\* the outcomes of one invocation of a thunk that first evaluates
\* task['payload'][k] for the keys, then makes the registry call
Outcomes(keys) ==
    IF Lookup(keys) # NoError THEN {Lookup(keys)} ELSE {NoError} \cup RemoteErrors

\* the flow stops with exception err
Abort(err) ==
    /\ pc' = "aborted"
    /\ error' = err

\* the call retry() was last given
current == wrapped[Len(wrapped)]

\* retry(thunk) after the thunk's invocation raised err (NoError: returned):
\* a call that returns has taken effect in the registry and the flow goes on
\* with Continue
Retried(err, call, Continue) ==
    /\ attempt' = attempt + 1
    /\ raised' = err
    /\ CASE retry(attempt + 1, err) = "return" ->
               /\ registry' = Append(registry, call)
               /\ error' = error
               /\ Continue
         [] retry(attempt + 1, err) = "again" ->
               /\ UNCHANGED <<registry, error, pc, i, j>>
         [] OTHER ->
               /\ Abort(err)
               /\ UNCHANGED <<registry, i, j>>

(***************************************************************************)
(* submit_locale, lines 84-98.                                             *)
(***************************************************************************)
\* lines 86-93: the manifest and the suffixes; both loops may be empty
LocaleStart ==
    /\ pc = "submit_locale"
    /\ suffixes' = Get(payload, "suffixes", <<EmptyStr>>)
    /\ i' = 1
    /\ j' = 1
    /\ pc' = IF manifest = <<>> \/ suffixes' = <<>> THEN "done" ELSE "locale_build"
    /\ UNCHANGED <<action, server, loaded, config, balrog_auth, steps,
                   task, manifest, partials, attempt, raised, error, wrapped, registry>>

\* lines 94-96 and the call of retry in line 98, for entry i and suffix j
LocaleBuild ==
    /\ pc = "locale_build"
    /\ LET built == create_locale_submitter(manifest[i], suffixes[j])
       IN  IF built.error # NoError
           THEN /\ Abort(built.error)
                /\ UNCHANGED <<attempt, wrapped>>
           ELSE /\ wrapped' = Append(wrapped, [fn   |-> "submitter.run",
                                               obj  |-> built.submitter,
                                               args |-> built.data])
                /\ attempt' = 0
                /\ pc' = "locale_retry"
                /\ error' = error
    /\ UNCHANGED <<action, server, loaded, config, balrog_auth, steps,
                   task, manifest, partials, suffixes, i, j, raised, registry>>

\* the two loops of lines 93-94 exchanged: every entry for a suffix before
\* the next suffix
LocaleAdvance_SuffixMajor ==
    /\ i' = IF i < Len(manifest) THEN i + 1 ELSE 1
    /\ j' = IF i < Len(manifest) THEN j ELSE j + 1
    /\ pc' = IF i < Len(manifest) \/ j < Len(suffixes) THEN "locale_build" ELSE "done"

\* after the call for (i, j): the next suffix, the next entry, or the end
LocaleAdvance ==
    /\ j' = IF j < Len(suffixes) THEN j + 1 ELSE 1
    /\ i' = IF j < Len(suffixes) THEN i ELSE i + 1
    /\ pc' = IF j < Len(suffixes) \/ i < Len(manifest) THEN "locale_build" ELSE "done"

\* line 98: one invocation of lambda: submitter.run(**release) by retry
LocaleAttempt ==
    /\ pc = "locale_retry"
    /\ \E err \in {NoError} \cup RemoteErrors :
          Retried(err, current, LocaleAdvance)
    /\ UNCHANGED <<action, server, loaded, config, balrog_auth, steps,
                   task, manifest, partials, suffixes, wrapped>>

(***************************************************************************)
(* schedule, lines 106-125.                                                *)
(***************************************************************************)
ScheduleKeys == <<"product", "version", "build_number", "publish_rules", "release_eta">>

\* lines 114-120 without the "or None" of line 119
ScheduleArgs_EtaAsIs ==
    <<capitalize(payload["product"]),
      payload["version"],
      payload["build_number"],
      payload["publish_rules"],
      payload["release_eta"]>>

\* lines 114-120
ScheduleArgs ==
    <<capitalize(payload["product"]),
      payload["version"],
      payload["build_number"],
      payload["publish_rules"],
      IF payload["release_eta"] = <<>> THEN None ELSE payload["release_eta"]>>

\* lines 108-120 and the call of retry in line 125
ScheduleBuild ==
    /\ pc = "schedule"
    /\ IF Lookup(ScheduleKeys) # NoError
       THEN /\ Abort(Lookup(ScheduleKeys))
            /\ UNCHANGED <<attempt, wrapped>>
       ELSE /\ wrapped' = Append(wrapped,
                                 [fn   |-> "scheduler.run",
                                  obj  |-> [cls    |-> "ReleaseScheduler",
                                            suffix |-> Get(payload, "blob_suffix", <<>>)],
                                  args |-> ScheduleArgs])
            /\ attempt' = 0
            /\ pc' = "schedule_retry"
            /\ error' = error
    /\ UNCHANGED <<action, server, loaded, config, balrog_auth, steps,
                   task, manifest, partials, suffixes, i, j, raised, registry>>

\* line 125 with the exception retry raises caught: schedule returns as if
\* the call had been made
ScheduleAttempt_Swallowed ==
    /\ pc = "schedule_retry"
    /\ \E err \in {NoError} \cup RemoteErrors :
          /\ attempt' = attempt + 1
          /\ raised' = err
          /\ error' = error
          /\ CASE retry(attempt + 1, err) = "return" ->
                     /\ registry' = Append(registry, current)
                     /\ pc' = "done"
               [] retry(attempt + 1, err) = "again" ->
                     UNCHANGED <<registry, pc>>
               [] OTHER ->
                     /\ registry' = registry
                     /\ pc' = "done"
          /\ UNCHANGED <<i, j>>
    /\ UNCHANGED <<action, server, loaded, config, balrog_auth, steps,
                   task, manifest, partials, suffixes, wrapped>>

\* line 125: one invocation of lambda: scheduler.run(*args) by retry
ScheduleAttempt ==
    /\ pc = "schedule_retry"
    /\ \E err \in {NoError} \cup RemoteErrors :
          Retried(err, current, pc' = "done" /\ UNCHANGED <<i, j>>)
    /\ UNCHANGED <<action, server, loaded, config, balrog_auth, steps,
                   task, manifest, partials, suffixes, wrapped>>

(***************************************************************************)
(* submit_toplevel, lines 137-183.                                         *)
(***************************************************************************)
\* the task's update_line, {} when absent (lines 147 and 170)
update_line == Get(payload, "update_line", <<>>)

\* line 147 with the keys of update_line ignored
ToplevelSuffixes_DefaultOnly == <<EmptyStr>>

\* line 147: update_line's keys, or [''] when there are none
ToplevelSuffixes ==
    IF Keys(update_line) # <<>> THEN Keys(update_line) ELSE <<EmptyStr>>

\* lines 139-147: the partials and the suffixes
ToplevelParse ==
    /\ pc = "submit_toplevel"
    /\ LET parsed == ParsePartials(payload)
       IN  IF parsed.error # NoError
           THEN /\ Abort(parsed.error)
                /\ UNCHANGED <<partials, suffixes, j>>
           ELSE /\ partials' = parsed.partials
                /\ suffixes' = ToplevelSuffixes
                /\ j' = 1
                /\ pc' = "create"
                /\ error' = error
    /\ UNCHANGED <<action, server, loaded, config, balrog_auth, steps,
                   task, manifest, i, attempt, raised, wrapped, registry>>

\* lines 150-156 with the creator under the task's blob_suffix alone
Creator_BaseSuffix(suffix) ==
    [cls    |-> "ReleaseCreatorV9",
     suffix |-> Get(payload, "blob_suffix", <<>>),
     complete_mar_filename_pattern |->
         Get(payload, "complete_mar_filename_pattern", None),
     complete_mar_bouncer_product_pattern |->
         Get(payload, "complete_mar_bouncer_product_pattern", None)]

\* lines 150-156
Creator(suffix) ==
    [cls    |-> "ReleaseCreatorV9",
     suffix |-> Get(payload, "blob_suffix", <<>>) \o suffix,
     complete_mar_filename_pattern |->
         Get(payload, "complete_mar_filename_pattern", None),
     complete_mar_bouncer_product_pattern |->
         Get(payload, "complete_mar_bouncer_product_pattern", None)]

\* lines 149-158: the creator for suffix j and the call of retry
CreateBegin ==
    /\ pc = "create"
    /\ wrapped' = Append(wrapped, [fn |-> "creator.run", obj |-> Creator(suffixes[j])])
    /\ attempt' = 0
    /\ pc' = "create_retry"
    /\ UNCHANGED <<action, server, loaded, config, balrog_auth, steps,
                   task, manifest, partials, suffixes, i, j, raised, error, registry>>

\* the payload keys the lambda of lines 158-171 reads, in order
CreatorKeys ==
    <<"app_version", "product", "version", "build_number", "channel_names",
      "archive_domain", "download_domain", "platforms", "require_mirrors">>

\* lines 159-170 with the product passed on as the task has it
CreatorArgs_ProductAsIs(suffix) ==
    [appVersion      |-> payload["app_version"],
     productName     |-> payload["product"],
     version         |-> payload["version"],
     buildNumber     |-> payload["build_number"],
     updateChannels  |-> payload["channel_names"],
     ftpServer       |-> payload["archive_domain"],
     bouncerServer   |-> payload["download_domain"],
     enUSPlatforms   |-> payload["platforms"],
     hashFunction    |-> <<"s", "h", "a", "5", "1", "2">>,
     partialUpdates  |-> partials,
     requiresMirrors |-> payload["require_mirrors"],
     updateLine      |-> LineGet(update_line, suffix)]

\* lines 159-170: the keyword arguments of creator.run
CreatorArgs(suffix) ==
    [appVersion      |-> payload["app_version"],
     productName     |-> capitalize(payload["product"]),
     version         |-> payload["version"],
     buildNumber     |-> payload["build_number"],
     updateChannels  |-> payload["channel_names"],
     ftpServer       |-> payload["archive_domain"],
     bouncerServer   |-> payload["download_domain"],
     enUSPlatforms   |-> payload["platforms"],
     hashFunction    |-> <<"s", "h", "a", "5", "1", "2">>,
     partialUpdates  |-> partials,
     requiresMirrors |-> payload["require_mirrors"],
     updateLine      |-> LineGet(update_line, suffix)]

\* after the creation for suffix j: the next suffix, or the push
CreateAdvance ==
    /\ j' = j + 1
    /\ pc' = IF j < Len(suffixes) THEN "create" ELSE "push"
    /\ i' = i

\* lines 158-171 with a failed creation skipped: the loop goes on to the next
\* suffix when retry gives up
CreateAttempt_BestEffort ==
    /\ pc = "create_retry"
    /\ \E err \in Outcomes(CreatorKeys) :
          /\ attempt' = attempt + 1
          /\ raised' = err
          /\ error' = error
          /\ CASE retry(attempt + 1, err) = "return" ->
                     /\ registry' = Append(registry,
                                           [fn |-> current.fn, obj |-> current.obj,
                                            args |-> CreatorArgs(suffixes[j])])
                     /\ CreateAdvance
               [] retry(attempt + 1, err) = "again" ->
                     UNCHANGED <<registry, pc, i, j>>
               [] OTHER ->
                     /\ registry' = registry
                     /\ CreateAdvance
    /\ UNCHANGED <<action, server, loaded, config, balrog_auth, steps,
                   task, manifest, partials, suffixes, wrapped>>

\* lines 158-171: one invocation of lambda: creator.run(...) by retry
CreateAttempt ==
    /\ pc = "create_retry"
    /\ \E err \in Outcomes(CreatorKeys) :
          Retried(err,
                  [fn |-> current.fn, obj |-> current.obj, args |-> CreatorArgs(suffixes[j])],
                  CreateAdvance)
    /\ UNCHANGED <<action, server, loaded, config, balrog_auth, steps,
                   task, manifest, partials, suffixes, wrapped>>

\* lines 173-178: the pusher and the call of retry
PushBegin ==
    /\ pc = "push"
    /\ wrapped' = Append(wrapped,
                         [fn  |-> "pusher.run",
                          obj |-> [cls    |-> "ReleasePusher",
                                   suffix |-> Get(payload, "blob_suffix", <<>>)]])
    /\ attempt' = 0
    /\ pc' = "push_retry"
    /\ UNCHANGED <<action, server, loaded, config, balrog_auth, steps,
                   task, manifest, partials, suffixes, i, j, raised, error, registry>>

\* the payload keys the lambda of lines 178-183 reads, in order
PusherKeys == <<"product", "version", "build_number", "rules_to_update">>

\* lines 179-182: the keyword arguments of pusher.run
PusherArgs ==
    [productName  |-> capitalize(payload["product"]),
     version      |-> payload["version"],
     build_number |-> payload["build_number"],
     rule_ids     |-> payload["rules_to_update"]]

\* lines 178-183 with pusher.run(...) called directly, not through retry
PushAttempt_Unwrapped ==
    /\ pc = "push_retry"
    /\ \E err \in Outcomes(PusherKeys) :
          /\ attempt' = attempt + 1
          /\ raised' = err
          /\ IF err = NoError
             THEN /\ registry' = Append(registry,
                                        [fn |-> current.fn, obj |-> current.obj,
                                         args |-> PusherArgs])
                  /\ pc' = "done"
                  /\ error' = error
             ELSE /\ Abort(err)
                  /\ registry' = registry
          /\ UNCHANGED <<i, j>>
    /\ UNCHANGED <<action, server, loaded, config, balrog_auth, steps,
                   task, manifest, partials, suffixes, wrapped>>

\* lines 178-183: one invocation of lambda: pusher.run(...) by retry
PushAttempt ==
    /\ pc = "push_retry"
    /\ \E err \in Outcomes(PusherKeys) :
          Retried(err,
                  [fn |-> current.fn, obj |-> current.obj, args |-> PusherArgs],
                  pc' = "done" /\ UNCHANGED <<i, j>>)
    /\ UNCHANGED <<action, server, loaded, config, balrog_auth, steps,
                   task, manifest, partials, suffixes, wrapped>>

(***************************************************************************)
(* update_config, lines 204-213.                                           *)
(***************************************************************************)
\* the section of server_config for server s
ServerSection(s) ==
    [api_root        |-> <<"api_root", s>>,
     balrog_username |-> <<"balrog_username", s>>,
     balrog_password |-> <<"balrog_password", s>>]

\* a config file with sections for these servers
ConfigFile(servers) ==
    [verbose       |-> <<"verbose">>,
     dummy         |-> <<"dummy">>,
     server_config |-> [s \in servers |-> ServerSection(s)]]

\* lines 207-213 done on the config object that was passed in, without the
\* deepcopy of line 205
update_config_InPlace(cfg, srv) ==
    IF ~Has(cfg["server_config"], srv)
    THEN [error |-> KeyError(srv), given |-> cfg, auth |-> None, config |-> cfg]
    ELSE LET new == Without(With(cfg, [api_root |-> cfg["server_config"][srv]["api_root"]]),
                            {"server_config"})
         IN  [error  |-> NoError,
              given  |-> new,
              auth   |-> <<cfg["server_config"][srv]["balrog_username"],
                           cfg["server_config"][srv]["balrog_password"]>>,
              config |-> new]

\* lines 204-213: given is the object that was passed in as it is after the
\* call, auth and config are what is returned; line 207 raises KeyError for a
\* server that has no section
update_config(cfg, srv) ==
    LET copy == cfg
    IN  IF ~Has(copy["server_config"], srv)
        THEN [error |-> KeyError(srv), given |-> cfg, auth |-> None, config |-> cfg]
        ELSE [error  |-> NoError,
              given  |-> cfg,
              auth   |-> <<copy["server_config"][srv]["balrog_username"],
                           copy["server_config"][srv]["balrog_password"]>>,
              config |-> Without(With(copy,
                                      [api_root |-> copy["server_config"][srv]["api_root"]]),
                                 {"server_config"})]

(***************************************************************************)
(* main, lines 239-255.  get_task, get_task_action, validate_task_schema   *)
(* and get_task_server are functions of balrogscript.task.                 *)
(***************************************************************************)
\* the value of a local of main that is not bound yet
Unbound == "unbound"

\* the action get_task_action gives for a task without an action tag
NoAction == "none"

\* line 244: the task's action tag; the resolver never raises
get_task_action(t) == IF Has(t, "action") THEN t["action"] ELSE NoAction

\* the servers get_task_server may name
Servers == {"default", "aus"}

\* what a function of balrogscript.task raises when it rejects the task
ConfigurationError(step) == [type |-> "ConfigurationError", arg |-> step]

\* the calls of lines 243-248, in order
MainSteps ==
    <<"get_task", "get_task_action", "validate_task_schema", "get_task_server",
      "update_config">>

\* the call of name step returned
Returned(step) == steps' = Append(steps, step)

\* line 243: the task is read, or cannot be read
GetTask ==
    /\ pc = "get_task"
    /\ \/ /\ Returned("get_task")
          /\ pc' = "get_task_action"
          /\ error' = error
       \/ /\ Abort(ConfigurationError("get_task"))
          /\ steps' = steps
    /\ UNCHANGED <<loaded, action, server, config, balrog_auth, task, manifest, partials,
                   suffixes, i, j, attempt, raised, wrapped, registry>>

\* line 244
GetTaskAction ==
    /\ pc = "get_task_action"
    /\ action' = get_task_action(task)
    /\ Returned("get_task_action")
    /\ pc' = "validate_task_schema"
    /\ UNCHANGED <<loaded, server, config, balrog_auth, task, manifest, partials,
                   suffixes, i, j, attempt, raised, error, wrapped, registry>>

\* line 245: the task fits the schema of its action, or the validation raises
ValidateTaskSchema ==
    /\ pc = "validate_task_schema"
    /\ \/ /\ Returned("validate_task_schema")
          /\ pc' = "get_task_server"
          /\ error' = error
       \/ /\ Abort(ConfigurationError("validate_task_schema"))
          /\ steps' = steps
    /\ UNCHANGED <<loaded, action, server, config, balrog_auth, task, manifest, partials,
                   suffixes, i, j, attempt, raised, wrapped, registry>>

\* line 247: the server the task names, or no server can be told
GetTaskServer ==
    /\ pc = "get_task_server"
    /\ \/ /\ \E s \in Servers : server' = s
          /\ Returned("get_task_server")
          /\ pc' = "update_config"
          /\ error' = error
       \/ /\ Abort(ConfigurationError("get_task_server"))
          /\ UNCHANGED <<server, steps>>
    /\ UNCHANGED <<loaded, action, config, balrog_auth, task, manifest, partials,
                   suffixes, i, j, attempt, raised, wrapped, registry>>

\* line 248 with the exception of update_config caught: main goes on with the
\* config as loaded
UpdateConfig_ErrorIgnored ==
    /\ pc = "update_config"
    /\ LET r == update_config(config, server)
       IN  /\ loaded' = r.given
           /\ IF r.error # NoError
              THEN UNCHANGED <<config, balrog_auth, steps>>
              ELSE /\ config' = r.config
                   /\ balrog_auth' = r.auth
                   /\ Returned("update_config")
           /\ pc' = "main"
           /\ error' = error
    /\ UNCHANGED <<action, server, task, manifest, partials, suffixes, i, j, attempt,
                   raised, wrapped, registry>>

\* line 248: balrog_auth, config = update_config(config, server)
UpdateConfig ==
    /\ pc = "update_config"
    /\ LET r == update_config(config, server)
       IN  /\ loaded' = r.given
           /\ IF r.error # NoError
              THEN /\ Abort(r.error)
                   /\ UNCHANGED <<config, balrog_auth, steps>>
              ELSE /\ config' = r.config
                   /\ balrog_auth' = r.auth
                   /\ Returned("update_config")
                   /\ pc' = "main"
                   /\ error' = error
    /\ UNCHANGED <<action, server, task, manifest, partials, suffixes, i, j, attempt,
                   raised, wrapped, registry>>

\* lines 250-255 with the schedule branch left out
Main_NoSchedule ==
    /\ pc = "main"
    /\ pc' = IF action = "submit-toplevel" THEN "submit_toplevel" ELSE "submit_locale"
    /\ UNCHANGED <<action, server, loaded, config, balrog_auth, steps,
                   task, manifest, partials, suffixes, i, j, attempt, raised, error,
                   wrapped, registry>>

\* lines 250-255: the flow the action selects
Main ==
    /\ pc = "main"
    /\ pc' = IF action = "submit-toplevel" THEN "submit_toplevel"
             ELSE IF action = "schedule" THEN "schedule"
             ELSE "submit_locale"
    /\ UNCHANGED <<action, server, loaded, config, balrog_auth, steps,
                   task, manifest, partials, suffixes, i, j, attempt, raised, error,
                   wrapped, registry>>

(***************************************************************************)
(* The invocations.                                                        *)
(***************************************************************************)
\* the state of an invocation at line 250, for the server "default"
Start ==
    /\ pc = "main"
    /\ steps = MainSteps
    /\ action = get_task_action(task)
    /\ server = "default"
    /\ loaded = ConfigFile({"default"})
    /\ config = update_config(ConfigFile({"default"}), "default").config
    /\ balrog_auth = update_config(ConfigFile({"default"}), "default").auth
    /\ partials = EmptyDict
    /\ suffixes = <<>>
    /\ i = 0
    /\ j = 0
    /\ attempt = 0
    /\ raised = NoError
    /\ error = NoError
    /\ wrapped = <<>>
    /\ registry = <<>>

\* the optional fields of a payload: blob_suffix b (when hasB), and more
Optional(hasB, b, more) ==
    IF hasB THEN With(more, [blob_suffix |-> b]) ELSE more

InitToplevel ==
    /\ manifest = <<>>
    /\ \E product \in Products, hasB, hasP, hasL \in BOOLEAN,
          raw \in PartialSamples, keys \in LineKeyLists,
          missing \in {{}, {"app_version"}, {"product"}, {"rules_to_update"}} :
          /\ hasP \/ raw = <<>>
          /\ hasL \/ keys = <<>>
          /\ task = ToplevelTask(product,
                        Optional(hasB, <<"t">>,
                            With(IF hasP THEN [partial_versions |-> raw] ELSE EmptyDict,
                                 IF hasL THEN [update_line |-> UpdateLine(keys)]
                                         ELSE EmptyDict)),
                        missing)

InitSchedule ==
    /\ manifest = <<>>
    /\ \E product \in Products, hasB \in BOOLEAN, eta \in {<<>>, <<"e", "t", "a">>},
          missing \in {{}, {"release_eta"}, {"product"}} :
          task = ScheduleTask(product, eta, Optional(hasB, <<"t">>, EmptyDict), missing)

InitLocale ==
    /\ manifest \in Manifests
    /\ \E hasS \in BOOLEAN, list \in SuffixLists :
          /\ hasS \/ list = <<>>
          /\ task = LocaleTask(IF hasS THEN [suffixes |-> list] ELSE EmptyDict)

Init ==
    /\ InitToplevel \/ InitSchedule \/ InitLocale
    /\ Start

Next ==
    \/ Main
    \/ LocaleStart
    \/ LocaleBuild
    \/ LocaleAttempt
    \/ ScheduleBuild
    \/ ScheduleAttempt
    \/ ToplevelParse
    \/ CreateBegin
    \/ CreateAttempt
    \/ PushBegin
    \/ PushAttempt

Spec == Init /\ [][Next]_vars

(***************************************************************************)
(* The partial_versions parser on its own: submit_toplevel up to line 147  *)
(* on raw strings put together from a few pieces.                          *)
(***************************************************************************)
Pieces == {<<"1">>, <<" ">>, <<",">>, <<"b">>, BuildLit}

RECURSIVE Concat(_)
Concat(parts) == IF parts = <<>> THEN <<>> ELSE Head(parts) \o Concat(Tail(parts))

RawStrings == {Concat(q) : q \in UNION {[1..n -> Pieces] : n \in 0..MaxPieces}}

InitParse ==
    /\ manifest = <<>>
    /\ \E hasP \in BOOLEAN, raw \in RawStrings :
          /\ hasP \/ raw = <<>>
          /\ task = ToplevelTask(<<"f", "x">>,
                                 IF hasP THEN [partial_versions |-> raw] ELSE EmptyDict,
                                 {})
    /\ Start

NextParse ==
    \/ Main
    \/ ToplevelParse

SpecParse == InitParse /\ [][NextParse]_vars

(***************************************************************************)
(* main as a whole, lines 239-255: the calls before the dispatch, on a few *)
(* tasks of every action, with and without an action tag.                  *)
(***************************************************************************)
\* task t with the action tag tag, or with none
Tagged(t, tag) ==
    IF tag = NoAction THEN [payload |-> t.payload]
    ELSE [action |-> tag, payload |-> t.payload]

\* the action tags that select the locale flow: two strings, and no tag
LocaleTags == {"submit-locale", "other", NoAction}

MainManifests ==
    {<<>>,
     <<Entry(1, {"tc_release"}, {"blob_suffix"})>>,
     <<Entry(1, {"tc_nightly"}, {"partialInfo"}), Entry(2, {"tc_release"}, {})>>,
     <<Entry(1, {"tc_release"}, {}), Entry(2, {}, {})>>}

\* line 239: the config file setup_config loaded
ConfigFiles == {ConfigFile({"default"}), ConfigFile(Servers)}

\* the state of an invocation at line 243
StartMain ==
    /\ pc = "get_task"
    /\ steps = <<>>
    /\ action = Unbound
    /\ server = Unbound
    /\ loaded \in ConfigFiles
    /\ config = loaded
    /\ balrog_auth = None
    /\ partials = EmptyDict
    /\ suffixes = <<>>
    /\ i = 0
    /\ j = 0
    /\ attempt = 0
    /\ raised = NoError
    /\ error = NoError
    /\ wrapped = <<>>
    /\ registry = <<>>

InitMain ==
    /\ \/ /\ manifest = <<>>
          /\ \E keys \in {<<>>, <<<<"a">>, <<>>>>},
                missing \in {{}, {"rules_to_update"}} :
                task = ToplevelTask(<<"f", "X">>,
                                    [blob_suffix |-> <<"t">>,
                                     update_line |-> UpdateLine(keys)],
                                    missing)
       \/ /\ manifest = <<>>
          /\ \E eta \in {<<>>, <<"e", "t", "a">>}, missing \in {{}, {"release_eta"}} :
                task = ScheduleTask(<<"f", "x">>, eta, EmptyDict, missing)
       \/ /\ manifest \in MainManifests
          /\ \E tag \in LocaleTags, list \in {<<<<>>>>, <<<<>>, <<"s">>>>} :
                task = Tagged(LocaleTask([suffixes |-> list]), tag)
    /\ StartMain

NextMain ==
    \/ GetTask
    \/ GetTaskAction
    \/ ValidateTaskSchema
    \/ GetTaskServer
    \/ UpdateConfig
    \/ Main
    \/ LocaleStart
    \/ LocaleBuild
    \/ LocaleAttempt
    \/ ScheduleBuild
    \/ ScheduleAttempt
    \/ ToplevelParse
    \/ CreateBegin
    \/ CreateAttempt
    \/ PushBegin
    \/ PushAttempt

SpecMain == InitMain /\ [][NextMain]_vars

\* every step of main that can be taken is taken in the end: the process runs
SpecMainLive == SpecMain /\ WF_vars(NextMain)

(***************************************************************************)
(* Properties.                                                             *)
(***************************************************************************)
IsToplevel == get_task_action(task) = "submit-toplevel"

IsSchedule == get_task_action(task) = "schedule"

IsLocale == get_task_action(task) \notin {"submit-toplevel", "schedule"}

\* the task's blob_suffix, '' when it has none
BlobSuffix == IF Has(payload, "blob_suffix") THEN payload["blob_suffix"] ELSE <<>>

\* the suffixes a top-level task asks for: update_line's keys, '' only when
\* update_line is absent or empty
LineKeys ==
    IF Has(payload, "update_line") /\ payload["update_line"] # <<>>
    THEN {payload["update_line"][n].key : n \in 1..Len(payload["update_line"])}
    ELSE {<<>>}

Pushes(calls) == {n \in 1..Len(calls) : calls[n].fn = "pusher.run"}

Creations(calls) == {n \in 1..Len(calls) : calls[n].fn = "creator.run"}

\* the n-th completed registry call is the creation for the n-th suffix
CreatedFor(n) ==
    /\ n <= Len(registry)
    /\ registry[n].fn = "creator.run"
    /\ registry[n].obj.suffix = BlobSuffix \o suffixes[n]

\* C1: in a top-level submission the push is handed to retry only once the
\* creation for every suffix has completed; when a creation fails for good the
\* invocation stops with no push, with no creation call for the suffixes after
\* it, and with the creations that completed still in the registry.
C1_PushOnlyAfterAllCreations ==
    IsToplevel =>
        /\ Pushes(wrapped) # {} =>
               \A n \in 1..Len(suffixes) : CreatedFor(n)
        /\ (pc = "aborted" /\ wrapped # <<>> /\ current.fn = "creator.run") =>
               /\ Pushes(wrapped) = {} /\ Pushes(registry) = {}
               /\ Len(registry) = Len(wrapped) - 1
               /\ \A n \in 1..Len(wrapped) : wrapped[n].fn = "creator.run"
               /\ \A n \in 1..Len(registry) : CreatedFor(n)
               /\ \A n \in 1..Len(wrapped) :
                      wrapped[n].obj.suffix = BlobSuffix \o suffixes[n]

\* the second of two creations failed after its last attempt, the first one's
\* effect is in the registry
C1_Witness ==
    /\ IsToplevel
    /\ pc = "aborted"
    /\ Len(suffixes) = 2
    /\ Len(wrapped) = 2
    /\ Len(registry) = 1
    /\ CreatedFor(1)
    /\ error \in RemoteErrors
    /\ attempt = MaxAttempts

\* C2: a top-level submission that completes has made exactly one creation per
\* suffix (update_line's keys, or '' alone when update_line is absent or empty)
\* and then exactly one push, however many suffixes there are.
C2_OneCreationPerSuffixThenOnePush ==
    (IsToplevel /\ pc = "done") =>
        /\ Len(registry) = Cardinality(LineKeys) + 1
        /\ Pushes(registry) = {Len(registry)}
        /\ Creations(registry) = 1..(Len(registry) - 1)
        /\ \A k \in LineKeys :
               Cardinality({n \in Creations(registry) :
                               registry[n].obj.suffix = BlobSuffix \o k}) = 1
        /\ registry[Len(registry)].obj.suffix = BlobSuffix
        /\ Len(wrapped) = Len(registry)

\* two suffixes, two creations, one push
C2_Witness ==
    /\ IsToplevel
    /\ pc = "done"
    /\ Cardinality(LineKeys) = 2
    /\ Len(registry) = 3
    /\ Cardinality(Pushes(registry)) = 1

\* the suffixes list of a locale task, [''] when it has none
LocaleSuffixes == IF Has(payload, "suffixes") THEN payload["suffixes"] ELSE <<EmptyStr>>

\* the entry and the suffix of the n-th (entry, suffix) pair in manifest order
\* x suffix order
PairEntry(n) == manifest[((n - 1) \div Len(LocaleSuffixes)) + 1]

PairSuffix(n) == LocaleSuffixes[((n - 1) % Len(LocaleSuffixes)) + 1]

\* C3: a locale submission hands its calls to retry in manifest order x suffix
\* order, one per (entry, suffix) pair; the calls that completed are the first
\* ones of that order; when a call fails for good the invocation stops there,
\* no later pair is called and the completed calls stay in the registry.
C3_ManifestOrderFailFast ==
    IsLocale =>
        /\ \A n \in 1..Len(wrapped) :
               /\ n <= Len(manifest) * Len(LocaleSuffixes)
               /\ wrapped[n].obj = create_locale_submitter(PairEntry(n), PairSuffix(n)).submitter
               /\ wrapped[n].args = create_locale_submitter(PairEntry(n), PairSuffix(n)).data
        /\ \A n \in 1..Len(registry) : n <= Len(wrapped) /\ registry[n] = wrapped[n]
        /\ Len(registry) \in {Len(wrapped), Len(wrapped) - 1}
        /\ (pc = "aborted" /\ error \in RemoteErrors) => Len(registry) = Len(wrapped) - 1
        /\ pc = "done" => Len(registry) = Len(manifest) * Len(LocaleSuffixes)

\* a call failed for good after an earlier one completed, with pairs left over
C3_Witness ==
    /\ IsLocale
    /\ pc = "aborted"
    /\ error \in RemoteErrors
    /\ Len(registry) = 2
    /\ Len(wrapped) = 3
    /\ Len(manifest) = 2
    /\ Len(LocaleSuffixes) = 2
    /\ wrapped[1].obj # wrapped[2].obj

\* the style markers of a manifest entry
Markers(e) == (DOMAIN e) \cap {"tc_release", "tc_nightly"}

\* C4: no call is handed to retry for a manifest entry that has both style
\* markers or neither: when the flow gets to such an entry it stops with the
\* unknown-style error.
C4_BothOrNeitherMarkerRaises ==
    IsLocale =>
        /\ \A n \in 1..Len(wrapped) : Cardinality(Markers(PairEntry(n))) = 1
        /\ (pc = "aborted" /\ error = UnknownStyleError) =>
               Cardinality(Markers(manifest[i])) # 1

\* C5: the style follows the marker: a release-marked entry gives a release
\* submitter whose data has build_number and version and no branch, a
\* nightly-marked entry a nightly submitter whose data has branch and no
\* build_number; the data has partialInfo exactly when the entry has it.
C5_StyleFollowsMarker ==
    IsLocale =>
        \A n \in 1..Len(wrapped) :
            LET e    == PairEntry(n)
                call == wrapped[n]
            IN  /\ Markers(e) = {"tc_release"} =>
                       /\ call.obj.cls = "ReleaseSubmitterV9"
                       /\ {"build_number", "version"} \subseteq DOMAIN call.args
                       /\ "branch" \notin DOMAIN call.args
                       /\ call.args["build_number"] = e["build_number"]
                       /\ call.args["version"] = e["version"]
                /\ Markers(e) = {"tc_nightly"} =>
                       /\ call.obj.cls = "NightlySubmitterV4"
                       /\ "branch" \in DOMAIN call.args
                       /\ "build_number" \notin DOMAIN call.args
                       /\ call.args["branch"] = e["branch"]
                /\ Has(call.args, "partialInfo") <=> Has(e, "partialInfo")
                /\ Has(e, "partialInfo") => call.args["partialInfo"] = e["partialInfo"]

\* a release entry without partialInfo, then a nightly entry with it
C5_Witness ==
    /\ IsLocale
    /\ Len(LocaleSuffixes) = 1
    /\ Len(registry) = 2
    /\ Markers(manifest[1]) = {"tc_release"}
    /\ ~Has(manifest[1], "partialInfo")
    /\ Markers(manifest[2]) = {"tc_nightly"}
    /\ Has(manifest[2], "partialInfo")
    /\ registry[1].obj.cls = "ReleaseSubmitterV9"
    /\ registry[2].obj.cls = "NightlySubmitterV4"

\* the raw partial_versions string of the task, '' when it has none
Raw == IF Has(payload, "partial_versions") THEN payload["partial_versions"] ELSE <<>>

\* the comma-separated tokens of the raw string
RawTokens == split(Raw, CommaLit)

\* the number of places of s where "build" starts
BuildCount(s) == Cardinality({p \in 1..Len(s) : MatchAt(s, BuildLit, p)})

\* token t reads <k>build<b>
Reads(t, k, b) == t = k \o BuildLit \o b

\* the parser of lines 140-145 has run and raised nothing
Parsed == IsToplevel /\ pc = "create"

\* the beginnings and the ends of s
Prefixes(s) == {SubSeq(s, 1, hi) : hi \in 0..Len(s)}

Suffixes(s) == {SubSeq(s, lo, Len(s)) : lo \in 1..(Len(s) + 1)}

\* the n-th token with the blanks around it removed
Trimmed(n) == strip(RawTokens[n])

\* the trimmed token t has the key k before its "build"
HasKey(t, k) == \E c \in Suffixes(t) : Reads(t, k, c)

\* C6 as stated: every token <version>build<N> gives the entry
\* strip(version) -> {buildNumber: strip(N)}, and an absent or empty string the
\* empty mapping.
C6_BothHalvesTrimmed ==
    Parsed =>
        IF Raw = <<>>
        THEN partials = EmptyDict
        ELSE \A n \in 1..Len(RawTokens) :
                 \A k \in Prefixes(RawTokens[n]), b \in Suffixes(RawTokens[n]) :
                     Reads(RawTokens[n], k, b) =>
                         /\ Has(partials, strip(k))
                         /\ partials[strip(k)].buildNumber = strip(b)

\* C6 as amended: only the token as a whole is trimmed.  Every token whose
\* trimmed text reads <version>build<N> gives the key <version>, taken as it
\* stands before "build", and the mapping holds for that key the <N> of the
\* last token with it, taken as it stands after "build"; there are no other
\* keys; an absent or empty string gives the empty mapping.
C6_TokenTrimmedOnly ==
    Parsed =>
        IF Raw = <<>>
        THEN partials = EmptyDict
        ELSE /\ \A n \in 1..Len(RawTokens) :
                    \E k \in DOMAIN partials, b \in Suffixes(Trimmed(n)) :
                        /\ Reads(Trimmed(n), k, b)
                        /\ (\A m \in (n + 1)..Len(RawTokens) : ~HasKey(Trimmed(m), k))
                               => partials[k].buildNumber = b
             /\ \A k \in DOMAIN partials :
                    \E n \in 1..Len(RawTokens) :
                        Reads(Trimmed(n), k, partials[k].buildNumber)

\* two tokens were parsed, the second with blanks around it
C6_Witness ==
    /\ Parsed
    /\ Len(RawTokens) = 2
    /\ strip(RawTokens[2]) # RawTokens[2]
    /\ Cardinality(DOMAIN partials) = 2

\* some token of the raw string has no "build" or more than one
Malformed == \E n \in 1..Len(RawTokens) : BuildCount(RawTokens[n]) # 1

\* C7: a partial_versions string with a malformed token ends the top-level
\* submission with the unpacking error of line 144 before any call is handed
\* to retry: no creation, no push.
C7_MalformedTokenFailsFirst ==
    (IsToplevel /\ Raw # <<>> /\ Malformed /\ pc \notin {"main", "submit_toplevel"}) =>
        /\ pc = "aborted"
        /\ error.type = "ValueError"
        /\ wrapped = <<>>
        /\ registry = <<>>

\* the second token is malformed, the first is not; the flow has stopped
C7_Witness ==
    /\ IsToplevel
    /\ Len(RawTokens) = 2
    /\ BuildCount(RawTokens[1]) = 1
    /\ BuildCount(RawTokens[2]) = 0
    /\ pc = "aborted"
    /\ error.type = "ValueError"

\* the statements at which retry is running a thunk
RetryPcs == {"locale_retry", "schedule_retry", "create_retry", "push_retry"}

\* C8: every registry call goes through retry: it is the call retry was last
\* given; the thunk is invoked at least once and at most MaxAttempts times;
\* an invocation that raises is followed by another while attempts remain; an
\* invocation that returns is the last one; and when the last attempt raises,
\* the invocation ends with that very exception.
C8_RetryPolicy ==
    [][/\ registry' # registry =>
              /\ pc \in RetryPcs
              /\ attempt' = attempt + 1
              /\ raised' = NoError
              /\ Len(registry') = Len(registry) + 1
              /\ registry'[Len(registry')].fn = wrapped[Len(wrapped)].fn
              /\ registry'[Len(registry')].obj = wrapped[Len(wrapped)].obj
       /\ pc \in RetryPcs =>
              /\ attempt' = attempt + 1
              /\ attempt' \in 1..MaxAttempts
              /\ wrapped' = wrapped
              /\ raised' = NoError =>
                     /\ pc' \notin RetryPcs
                     /\ pc' # "aborted"
                     /\ Len(registry') = Len(registry) + 1
              /\ (raised' # NoError /\ attempt' < MaxAttempts) =>
                     /\ pc' = pc
                     /\ registry' = registry
                     /\ error' = NoError
              /\ (raised' # NoError /\ attempt' = MaxAttempts) =>
                     /\ pc' = "aborted"
                     /\ error' = raised'
                     /\ registry' = registry
       /\ pc \notin RetryPcs => (raised' = raised /\ attempt' \in {attempt, 0})
      ]_vars

\* the last attempt of a call raised and its exception ended the invocation,
\* after an earlier call had returned on a second attempt or later
C8_Witness ==
    /\ pc = "aborted"
    /\ attempt = MaxAttempts
    /\ raised \in RemoteErrors
    /\ error = raised
    /\ Len(registry) >= 1
    /\ Len(wrapped) = Len(registry) + 1

\* C9 as stated: an exception that is not the registry call's own is never
\* followed by another attempt: while retry is running, the thunk has raised
\* nothing but registry errors.
C9_LocalErrorsNeverRetried ==
    (pc \in RetryPcs /\ attempt >= 1) => raised \in RemoteErrors

\* the task has every field the scheduling flow reads
ScheduleComplete == \A n \in 1..Len(ScheduleKeys) : Has(payload, ScheduleKeys[n])

\* C10: a scheduling flow (of a task that has the fields it reads) hands
\* exactly one call to retry, scheduler.run with the five arguments
\* capitalized product, version, build_number, publish_rules, release_eta in
\* this order, the last one None when release_eta is '' and release_eta itself
\* when it is a non-empty string.
C10_OneScheduleCallEtaNormalised ==
    (IsSchedule /\ ScheduleComplete /\ pc \in {"schedule_retry", "done", "aborted"}) =>
        /\ Len(wrapped) = 1
        /\ wrapped[1].fn = "scheduler.run"
        /\ Len(wrapped[1].args) = 5
        /\ wrapped[1].args[1] = capitalize(payload["product"])
        /\ Upper(payload["product"][1]) = wrapped[1].args[1][1]
        /\ wrapped[1].args[2] = payload["version"]
        /\ wrapped[1].args[3] = payload["build_number"]
        /\ wrapped[1].args[4] = payload["publish_rules"]
        /\ payload["release_eta"] = <<>> => wrapped[1].args[5] = None
        /\ payload["release_eta"] # <<>> => wrapped[1].args[5] = payload["release_eta"]
        /\ pc = "done" => registry = <<wrapped[1]>>
        /\ pc # "done" => registry = <<>>

\* a schedule call with release_eta '' completed
C10_Witness ==
    /\ IsSchedule
    /\ pc = "done"
    /\ payload["release_eta"] = <<>>
    /\ Len(registry) = 1
    /\ registry[1].args[5] = None

\* the flow the task's action tag stands for
SelectedFlow ==
    IF Has(task, "action") /\ task["action"] = "submit-toplevel" THEN "toplevel"
    ELSE IF Has(task, "action") /\ task["action"] = "schedule" THEN "schedule"
    ELSE "locale"

\* the statements of a flow
FlowPcs(flow) ==
    CASE flow = "toplevel" -> {"submit_toplevel", "create", "create_retry", "push", "push_retry"}
      [] flow = "schedule" -> {"schedule", "schedule_retry"}
      [] flow = "locale"   -> {"submit_locale", "locale_build", "locale_retry"}

\* the registry calls of a flow
FlowCalls(flow) ==
    CASE flow = "toplevel" -> {"creator.run", "pusher.run"}
      [] flow = "schedule" -> {"scheduler.run"}
      [] flow = "locale"   -> {"submitter.run"}

Flows == {"toplevel", "schedule", "locale"}

\* C11: an invocation runs the flow its action tag selects and no other:
\* submit-toplevel the top-level flow, schedule the scheduling flow, any other
\* tag and no tag the locale flow.  Control is never at a statement of another
\* flow, no call of another flow is handed to retry or reaches the registry,
\* and an invocation that completed went through the dispatch.
C11_OneFlowByActionTag ==
    /\ \A flow \in Flows : pc \in FlowPcs(flow) => flow = SelectedFlow
    /\ \A n \in 1..Len(wrapped) : wrapped[n].fn \in FlowCalls(SelectedFlow)
    /\ \A n \in 1..Len(registry) : registry[n].fn \in FlowCalls(SelectedFlow)
    /\ pc \in UNION {FlowPcs(flow) : flow \in Flows} \cup {"done"} =>
           /\ steps = MainSteps
           /\ action = get_task_action(task)

\* a task without an action tag completed a locale submission of two calls
C11_Witness ==
    /\ ~Has(task, "action")
    /\ pc = "done"
    /\ Len(registry) = 2
    /\ registry[1].fn = "submitter.run"
    /\ registry[2].fn = "submitter.run"

\* the product name the n-th completed call sent
SentName(n) ==
    IF registry[n].fn = "scheduler.run" THEN registry[n].args[1]
    ELSE registry[n].args["productName"]

\* the product name the n-th completed call was built from: the task's product,
\* in the locale flow the appName of the call's manifest entry
GivenName(n) ==
    IF registry[n].fn = "submitter.run" THEN PairEntry(n)["appName"]
    ELSE payload["product"]

\* the letters of s after the first
Rest(s) == 2..Len(s)

\* C12 as stated: every completed request sends the product name with its
\* first letter in upper case and its other letters as they were given.
C12_FirstUpperRestUnchanged ==
    \A n \in 1..Len(registry) :
        /\ Len(SentName(n)) = Len(GivenName(n))
        /\ SentName(n)[1] = Upper(GivenName(n)[1])
        /\ \A p \in Rest(GivenName(n)) : SentName(n)[p] = GivenName(n)[p]

\* C12 as amended: a creation, push or scheduling request sends the task's
\* product with its first letter in upper case and every other letter in
\* lower case; a locale request sends the manifest entry's appName exactly as
\* the entry has it.
C12_FirstUpperRestLowerLocaleAsIs ==
    \A n \in 1..Len(registry) :
        IF registry[n].fn = "submitter.run"
        THEN SentName(n) = GivenName(n)
        ELSE /\ Len(SentName(n)) = Len(GivenName(n))
             /\ SentName(n)[1] = Upper(GivenName(n)[1])
             /\ \A p \in Rest(GivenName(n)) : SentName(n)[p] = Lower(GivenName(n)[p])

\* a top-level submission of product "fX" completed: its creation and its push
\* sent "Fx"
C12_Witness ==
    /\ IsToplevel
    /\ pc = "done"
    /\ payload["product"] = <<"f", "X">>
    /\ \A n \in 1..Len(registry) : SentName(n) = <<"F", "x">>

\* the value update_line has for key k, None when update_line is absent or has
\* no such key
LineOf(k) ==
    IF Has(payload, "update_line") /\ \E n \in 1..Len(payload["update_line"]) :
                                          payload["update_line"][n].key = k
    THEN LET n == CHOOSE n \in 1..Len(payload["update_line"]) :
                      payload["update_line"][n].key = k
         IN  payload["update_line"][n].value
    ELSE None

\* C14: in a top-level submission the creator of the n-th creation is
\* namespaced with blob_suffix + s ('' for an absent blob_suffix), s being the
\* n-th suffix; the completed creation got updateLine = update_line[s] when
\* update_line has the key s and None otherwise, which is the case of the
\* default suffix '' of an absent or empty update_line; the pusher is
\* namespaced with blob_suffix alone.
C14_CreatorSuffixAndUpdateLine ==
    IsToplevel =>
        /\ \A n \in Creations(wrapped) :
               /\ n <= Len(suffixes)
               /\ wrapped[n].obj.suffix = BlobSuffix \o suffixes[n]
               /\ suffixes[n] \in LineKeys
        /\ \A n \in Creations(registry) :
               /\ registry[n].obj.suffix = BlobSuffix \o suffixes[n]
               /\ registry[n].args.updateLine = LineOf(suffixes[n])
               /\ (~Has(payload, "update_line") \/ payload["update_line"] = <<>>) =>
                      /\ suffixes[n] = EmptyStr
                      /\ registry[n].args.updateLine = None
        /\ \A n \in Pushes(wrapped) : wrapped[n].obj.suffix = BlobSuffix
        /\ \A n \in Pushes(registry) : registry[n].obj.suffix = BlobSuffix

\* a task with blob_suffix and two update lines completed: two creations with
\* different namespaces and their own update lines, then the push under the
\* base suffix
C14_Witness ==
    /\ IsToplevel
    /\ pc = "done"
    /\ Has(payload, "blob_suffix")
    /\ Len(suffixes) = 2
    /\ suffixes[2] # EmptyStr
    /\ registry[1].obj.suffix # registry[2].obj.suffix
    /\ registry[2].obj.suffix = payload["blob_suffix"] \o suffixes[2]
    /\ registry[1].args.updateLine # None
    /\ registry[1].args.updateLine # registry[2].args.updateLine
    /\ registry[3].obj.suffix = payload["blob_suffix"]

\* the states of the invocation's state machine
Phase ==
    CASE pc \in {"get_task", "get_task_action"} -> "Start"
      [] pc \in {"validate_task_schema", "get_task_server", "update_config", "main"} ->
             "ActionResolved"
      [] pc = "done" -> "Completed"
      [] pc = "aborted" -> "Aborted"
      [] OTHER -> "Executing"

Terminal == pc \in {"done", "aborted"}

\* the steps the state machine may take
PhaseSteps ==
    {<<"Start", "ActionResolved">>, <<"ActionResolved", "Executing">>,
     <<"Executing", "Completed">>,
     <<"Start", "Aborted">>, <<"ActionResolved", "Aborted">>, <<"Executing", "Aborted">>}

\* the number of registry calls the selected flow makes when nothing fails
Expected ==
    CASE SelectedFlow = "toplevel" -> Cardinality(LineKeys) + 1
      [] SelectedFlow = "schedule" -> 1
      [] SelectedFlow = "locale"   -> Len(manifest) * Len(LocaleSuffixes)

\* C13: an invocation moves through Start, ActionResolved, Executing in this
\* order and ends in Completed or Aborted (Completed is entered from Executing
\* only, Aborted from any of the three); it always ends; it ends in Completed
\* exactly when the selected flow was entered and every registry call the flow
\* has to make returned within its retry limit; and once it has ended neither
\* retry is given a call nor the registry receives one.
C13_PhasesAndTermination ==
    /\ [][/\ Phase' # Phase => <<Phase, Phase'>> \in PhaseSteps
          /\ Phase = "Start" => action = Unbound
          /\ Phase' \in {"ActionResolved", "Executing"} => action' = get_task_action(task)
          /\ Terminal => (registry' = registry /\ wrapped' = wrapped /\ pc' = pc)
          /\ Terminal' =>
                 (pc' = "done" <=> /\ steps' = MainSteps
                                   /\ Len(registry') = Expected
                                   /\ registry' = [n \in 1..Len(wrapped') |->
                                                      [fn  |-> wrapped'[n].fn,
                                                       obj |-> wrapped'[n].obj,
                                                       args |-> registry'[n].args]]
                                   /\ error' = NoError)
          /\ (pc' = "aborted" /\ error' \in RemoteErrors) =>
                 /\ attempt' = MaxAttempts
                 /\ Len(registry') = Len(wrapped') - 1
         ]_vars
    /\ <>Terminal

\* an invocation of two locale calls ended in Completed, the second call having
\* returned on its last attempt
C13_Witness ==
    /\ pc = "done"
    /\ SelectedFlow = "locale"
    /\ Expected = 2
    /\ Len(registry) = 2
    /\ attempt = MaxAttempts
    /\ raised = NoError

\* the calls of lines 243-248 that have returned are the first ones of main
StepsInOrder == steps = SubSeq(MainSteps, 1, Len(steps))

\* C15: reading the task, resolving the action, validating the task and
\* resolving server and credentials all return, in this order, before the
\* first call is handed to retry; an invocation in which one of them raised
\* has handed no call to retry and made no registry call.
C15_StepsBeforeFirstCall ==
    /\ StepsInOrder
    /\ wrapped # <<>> =>
           /\ steps = MainSteps
           /\ action = get_task_action(task)
           /\ server \in Servers
           /\ Has(loaded["server_config"], server)
           /\ balrog_auth # None
    /\ Len(registry) <= Len(wrapped)
    /\ (pc = "aborted" /\ steps # MainSteps) =>
           /\ wrapped = <<>>
           /\ registry = <<>>
           /\ error.type \in {"ConfigurationError", "KeyError"}
    /\ (pc # "aborted" /\ steps # MainSteps) =>
           (pc = MainSteps[Len(steps) + 1] /\ wrapped = <<>>)

\* the last of the steps raised, for a server the config file has no section
\* of: the invocation ended without a call
C15_Witness ==
    /\ pc = "aborted"
    /\ steps = SubSeq(MainSteps, 1, 4)
    /\ error = KeyError(server)
    /\ SelectedFlow = "toplevel"
    /\ wrapped = <<>>
    /\ registry = <<>>

\* the place in the manifest of the entry of the n-th (entry, suffix) pair
PairIndex(n) == ((n - 1) \div Len(LocaleSuffixes)) + 1

\* the completed calls for the entry at place k of the manifest
CallsFor(k) == {n \in 1..Len(registry) : PairIndex(n) = k}

\* C16: the extra suffix reaches the release submitter only.  The call for a
\* release-marked entry and suffix s has the submitter suffix blob_suffix + s
\* ('' for an entry without blob_suffix) and, for every s, the same fields.
\* The call for an entry marked nightly only has a submitter without suffix,
\* and all calls for that entry have the same submitter and the same fields
\* (the calls for an entry follow one another, so each is compared with the
\* one before it); a locale flow that completed has made one call per suffix
\* for every entry.
C16_SuffixOnlyForReleaseStyle ==
    IsLocale =>
        /\ \A n \in 1..Len(wrapped) :
               LET e == PairEntry(n)
               IN  /\ Has(e, "tc_release") =>
                          /\ wrapped[n].obj.suffix =
                                 (IF Has(e, "blob_suffix") THEN e["blob_suffix"] ELSE EmptyStr)
                                     \o PairSuffix(n)
                          /\ DOMAIN wrapped[n].obj = {"cls", "suffix"}
                   /\ Markers(e) = {"tc_nightly"} =>
                          /\ "suffix" \notin DOMAIN wrapped[n].obj
                          /\ wrapped[n].obj.cls = "NightlySubmitterV4"
                   /\ (n > 1 /\ PairIndex(n - 1) = PairIndex(n)) =>
                          /\ wrapped[n - 1].args = wrapped[n].args
                          /\ Markers(e) = {"tc_nightly"} => wrapped[n - 1] = wrapped[n]
        /\ pc = "done" =>
               \A k \in 1..Len(manifest) : Cardinality(CallsFor(k)) = Len(LocaleSuffixes)

\* a manifest of a nightly entry and a release entry, two different suffixes:
\* two identical calls for the first, two calls with different submitter
\* suffixes for the second
C16_Witness ==
    /\ IsLocale
    /\ pc = "done"
    /\ Len(manifest) = 2
    /\ Markers(manifest[1]) = {"tc_nightly"}
    /\ Markers(manifest[2]) = {"tc_release"}
    /\ Len(LocaleSuffixes) = 2
    /\ LocaleSuffixes[1] # LocaleSuffixes[2]
    /\ Len(registry) = 4
    /\ registry[1] = registry[2]
    /\ registry[3].obj.suffix # registry[4].obj.suffix
    /\ registry[3].args = registry[4].args

\* the statements of main up to the call of update_config
BeforeUpdate ==
    {"get_task", "get_task_action", "validate_task_schema", "get_task_server", "update_config"}

\* C17: the call of update_config leaves the config it is given as it was; when
\* it returns, the credentials are the user name and the password of the
\* selected server's section and the new config is the given one with api_root
\* set to that section's api_root and without server_config, so without any
\* credentials; from then on neither the config nor the credentials change.
C17_UpdateConfigCopies ==
    [][/\ pc = "update_config" =>
              /\ loaded' = loaded
              /\ config = loaded
              /\ pc' = "main" =>
                     /\ balrog_auth' = <<loaded["server_config"][server]["balrog_username"],
                                         loaded["server_config"][server]["balrog_password"]>>
                     /\ DOMAIN config' = ((DOMAIN loaded) \ {"server_config"}) \cup {"api_root"}
                     /\ config'["api_root"] = loaded["server_config"][server]["api_root"]
                     /\ \A k \in (DOMAIN loaded) \ {"server_config"} : config'[k] = loaded[k]
                     /\ \A k \in DOMAIN config' :
                            config'[k] \notin {balrog_auth'[1], balrog_auth'[2]}
              /\ pc' = "aborted" =>
                     /\ ~Has(loaded["server_config"], server)
                     /\ config' = config
                     /\ balrog_auth' = balrog_auth
       /\ pc \notin BeforeUpdate =>
              /\ config' = config
              /\ balrog_auth' = balrog_auth
              /\ loaded' = loaded
              /\ Has(loaded, "server_config")
              /\ ~Has(config, "server_config")
      ]_vars

\* an invocation for the second server of a config file with two sections made
\* a registry call: the file's config still has both sections, the builders'
\* config has that server's api_root and no section
C17_Witness ==
    /\ server = "aus"
    /\ registry # <<>>
    /\ DOMAIN loaded["server_config"] = Servers
    /\ config["api_root"] = ServerSection("aus").api_root
    /\ ~Has(config, "server_config")
    /\ balrog_auth = <<ServerSection("aus").balrog_username,
                       ServerSection("aus").balrog_password>>

====
